---- MODULE Spec2Model ----
(***************************************************************************)
(* The parameter generators of skrf.media: Debye, ColeCole, Plasma and     *)
(* TwoWire.  Each constructor computes R, L, G, C from a frequency axis    *)
(* and physical constants and hands them to DistributedCircuit.__init__.   *)
(*                                                                         *)
(* Numbers.  A double is modelled by an exact extended rational <<n, d>>:  *)
(*   d > 0, gcd(n, d) = 1   a finite value n/d                             *)
(*   <<1, 0>>, <<-1, 0>>    +inf, -inf                                     *)
(*   <<0, 0>>               NaN                                            *)
(* Rounding error is not modelled and -0.0 is identified with 0.0.         *)
(* Units: frequency in GHz, time in ns, angular frequency in rad/ns,       *)
(* permittivity in pF/m, permeability in uH/m.                             *)
(***************************************************************************)
EXTENDS Integers, Sequences, FiniteSets, TLC

VARIABLES
    frequency,   \* the shared Frequency object: [f |-> <<GHz...>>, unit |-> label]
    builtins,    \* names bound in the interpreter's builtins beyond the stock ones:
                 \* {} for CPython as shipped, {"inf"} where the host has added it
    medium,      \* the constructed medium, or None
    raised,      \* the exception the constructor call ended with, or "none"
    strOut,      \* what __str__ of the medium last returned, or None
    reprOut,     \* what __repr__ of the medium last returned, or None
    call,        \* the last constructor call: [cls, args], or None
    dcinit,      \* the arguments DistributedCircuit.__init__ was invoked with, or None
    seen         \* history: the first constructor call of the run and what it built

vars == <<frequency, builtins, medium, raised, strOut, reprOut, call, dcinit, seen>>

None == [kind |-> "None"]

----------------------------------------------------------------------------
(* Extended rational arithmetic: IEEE-754 semantics of numpy's array ops.  *)

Abs(i) == IF i < 0 THEN -i ELSE i

Sign(i) == IF i < 0 THEN -1 ELSE IF i > 0 THEN 1 ELSE 0

RECURSIVE GCD(_, _)
GCD(a, b) == IF b = 0 THEN a ELSE GCD(b, a % b)

\* n/d brought to the canonical form; d = 0 gives inf, -inf or NaN by the sign of n.
Q(n, d) ==
    IF d = 0 THEN <<Sign(n), 0>>
    ELSE LET g == GCD(Abs(n), Abs(d))
             s == Sign(d)
         IN  <<(s * n) \div g, (s * d) \div g>>

Zero == <<0, 1>>
One == <<1, 1>>
Inf == <<1, 0>>
NaN == <<0, 0>>

IsFinite(x) == x[2] # 0

QNeg(x) == <<-x[1], x[2]>>

QAdd(x, y) ==
    IF x[2] = 0 /\ y[2] = 0
    THEN (IF x = y THEN x ELSE NaN)
    ELSE LET g == GCD(x[2], y[2])   \* over the least common denominator
         IN  Q(x[1] * (y[2] \div g) + y[1] * (x[2] \div g), (x[2] \div g) * y[2])

QSub(x, y) == QAdd(x, QNeg(y))

\* cross-reduced before multiplying, to keep the integers small
QMul(x, y) ==
    IF x[2] = 0 \/ y[2] = 0
    THEN Q(Sign(x[1]) * Sign(y[1]), 0)
    ELSE LET a == Q(x[1], y[2])
             b == Q(y[1], x[2])
         IN  Q(a[1] * b[1], a[2] * b[2])

\* 1/x with numpy's division: 1/0 = inf, 1/inf = 0, 1/NaN = NaN
QRecip(x) == IF x = NaN THEN NaN ELSE Q(x[2], x[1])

QDiv(x, y) == QMul(x, QRecip(y))

QSquare(x) == QMul(x, x)

\* a/b < c/d for b, d > 0, by comparing the continued fractions (no products)
RECURSIVE FracLt(_, _, _, _)
FracLt(a, b, c, d) ==
    IF a \div b # c \div d THEN a \div b < c \div d
    ELSE IF c % d = 0 THEN FALSE
    ELSE IF a % b = 0 THEN TRUE
    ELSE FracLt(d, c % d, b, a % b)

\* x < y; every comparison with NaN is false
QLt(x, y) ==
    /\ x # NaN /\ y # NaN /\ x # y
    /\ IF x[2] = 0 THEN x[1] < 0
       ELSE IF y[2] = 0 THEN y[1] > 0
       ELSE FracLt(x[1], x[2], y[1], y[2])

QLe(x, y) == x # NaN /\ y # NaN /\ ~QLt(y, x)

QAbs(x) == <<Abs(x[1]), x[2]>>

int(i) == <<i, 1>>

\* floor(sqrt(n)) for n >= 0, by bisection on lo^2 <= n < hi^2
RECURSIVE ISqrtIn(_, _, _)
ISqrtIn(n, lo, hi) ==
    IF hi - lo <= 1 THEN lo
    ELSE LET mid == (lo + hi) \div 2
         IN  IF mid * mid <= n THEN ISqrtIn(n, mid, hi) ELSE ISqrtIn(n, lo, mid)

ISqrt(n) == ISqrtIn(n, 0, (IF n < 46340 THEN n ELSE 46340) + 1)

\* numpy.sqrt: NaN below zero, exact on squares of rationals, otherwise the
\* root of n/d rounded down to a multiple of 1/d.
QSqrt(x) ==
    IF x = NaN \/ x[1] < 0 THEN NaN
    ELSE IF x[2] = 0 THEN Inf
    ELSE Q(ISqrt(x[1] * x[2]), x[2])

\* numpy.arccosh(x) = ln(x + sqrt(x^2 - 1)): NaN below 1, 0 at 1, positive and
\* finite above 1, inf at inf.  ln(y) is taken as 2(y-1)/(y+1).
QArcCosh(x) ==
    IF x = NaN \/ QLt(x, One) THEN NaN
    ELSE IF x[2] = 0 THEN Inf
    ELSE LET y == QAdd(x, QSqrt(QSub(QSquare(x), One)))
         IN  QDiv(QMul(int(2), QSub(y, One)), QAdd(y, One))

----------------------------------------------------------------------------
(* Complex numbers <<re, im>>, with numpy's complex128 loops.              *)

Cx(x) == <<x, Zero>>
J == <<Zero, One>>
Re(z) == z[1]
Im(z) == z[2]

CAdd(a, b) == <<QAdd(a[1], b[1]), QAdd(a[2], b[2])>>
CSub(a, b) == <<QSub(a[1], b[1]), QSub(a[2], b[2])>>
CMul(a, b) ==
    <<QSub(QMul(a[1], b[1]), QMul(a[2], b[2])),
      QAdd(QMul(a[1], b[2]), QMul(a[2], b[1]))>>

\* numpy's complex division (Smith's algorithm)
CDiv(a, b) ==
    IF QLe(QAbs(b[2]), QAbs(b[1]))
    THEN IF b[1] = Zero /\ b[2] = Zero
         THEN <<QDiv(a[1], QAbs(b[1])), QDiv(a[2], QAbs(b[1]))>>
         ELSE LET rat == QDiv(b[2], b[1])
                  scl == QRecip(QAdd(b[1], QMul(b[2], rat)))
              IN  <<QMul(QAdd(a[1], QMul(a[2], rat)), scl),
                    QMul(QSub(a[2], QMul(a[1], rat)), scl)>>
    ELSE LET rat == QDiv(b[1], b[2])
             scl == QRecip(QAdd(b[2], QMul(b[1], rat)))
         IN  <<QMul(QAdd(QMul(a[1], rat), a[2]), scl),
               QMul(QSub(QMul(a[2], rat), a[1]), scl)>>

\* z ** k for the exponents 0 and 1 (numpy: ones, and a copy)
CPow(z, k) == IF k = Zero THEN Cx(One) ELSE z

----------------------------------------------------------------------------
(* Values handed to DistributedCircuit: a numpy array or a scalar.         *)

Arr(s) == [shape |-> "array", v |-> s]
Scal(x) == [shape |-> "scalar", v |-> <<x>>]

----------------------------------------------------------------------------
(* scipy.constants, as rationals in the units of the header.               *)

pi == <<25, 8>>            \* 3.125
mu_0 == <<5, 4>>           \* 4e-7 * pi H/m = 0.4 * pi uH/m
epsilon_0 == <<177, 20>>   \* 8.854e-12 F/m = 8.85 pF/m
\* e**2/(epsilon_0*m_e) = 3182.6 m^3/s^2: with ne in 1e18 m^-3, wp2 in (rad/ns)^2
e2_over_eps0_me == <<3183, 1>>

----------------------------------------------------------------------------
(* The Frequency collaborator: f, w = 2*pi*f, f_scaled, unit, npoints.     *)

UnitMultiplier(unit) == IF unit = "THz" THEN <<1000, 1>> ELSE One

Freq_w(fr) == [i \in 1..Len(fr.f) |-> QMul(QMul(int(2), pi), int(fr.f[i]))]
Freq_f_scaled(fr) == [i \in 1..Len(fr.f) |-> QDiv(int(fr.f[i]), UnitMultiplier(fr.unit))]
Freq_npoints(fr) == Len(fr.f)

\* media.to_meters(d, unit): the accepted unit strings; the five length units
\* scale d, any other string is refused.  The phase and time units need a
\* propagation constant or velocity and are not drawn by the model.
RecognizedUnits ==
    {"deg", "rad", "m", "cm", "um", "in", "mil", "s", "us", "ns", "ps"}

LengthScale(unit) ==
    CASE unit = "m" -> One
      [] unit = "cm" -> <<1, 100>>
      [] unit = "um" -> <<1, 1000000>>
      [] unit = "in" -> <<127, 5000>>
      [] unit = "mil" -> <<127, 5000000>>

to_meters(d, unit) ==
    IF unit \in RecognizedUnits
    THEN [raised |-> "none", v |-> QMul(LengthScale(unit), d)]
    ELSE [raised |-> "ValueError", v |-> NaN]

\* DistributedCircuit.__init__(self, frequency, C, G, I, R): the object it leaves
DistributedCircuit_init(cls, fr, C, G, I, R) ==
    [kind |-> "Medium", cls |-> cls, frequency |-> fr,
     C |-> C, G |-> G, I |-> I, R |-> R]

\* the constructor reached its last statement, the call of
\* DistributedCircuit.__init__(self, frequency=frequency, C=C, G=G, I=I, R=R)
Call(C, G, I, R) == [raised |-> "none", dc |-> [C |-> C, G |-> G, I |-> I, R |-> R]]
\* the constructor raised before its last statement
Raise(exc) == [raised |-> exc, dc |-> None]

\* omega = 2 * pi * frequency.f
Omega(fr) == [i \in 1..Len(fr.f) |-> QMul(QMul(int(2), pi), int(fr.f[i]))]

----------------------------------------------------------------------------
(* Debye.__init__                                                          *)

\* Debye_ep with the slip 1+omega**2*tau**2 -> omega**2*tau**2
Debye_ep_no_one(w, es, einf, tau) ==
    QAdd(einf, QDiv(QSub(es, einf), QMul(QSquare(w), QSquare(tau))))

\* ep = einf + (es - einf)/(1+omega**2*tau**2)
Debye_ep(w, es, einf, tau) ==
    QAdd(einf, QDiv(QSub(es, einf),
                    QAdd(One, QMul(QSquare(w), QSquare(tau)))))

\* Debye_edp with the slip of dropping the relaxation denominator
Debye_edp_flat(w, es, einf, tau) == QMul(QMul(QSub(es, einf), w), tau)

\* edp = ((es-einf)*omega*tau)/(1+omega**2*tau**2)
Debye_edp(w, es, einf, tau) ==
    QDiv(QMul(QMul(QSub(es, einf), w), tau),
         QAdd(One, QMul(QSquare(w), QSquare(tau))))

\* eps = ep+1j*edp
Debye_eps(w, es, einf, tau) ==
    CAdd(Cx(Debye_ep(w, es, einf, tau)),
         CMul(J, Cx(Debye_edp(w, es, einf, tau))))

\* DebyeInit with the slip R=imag(mu_0), the factor frequency.w left out
DebyeInit_scalarR(fr, es, einf, tau) ==
    LET omega == Omega(fr)
        w == Freq_w(fr)
        eps == [i \in 1..Len(omega) |-> Debye_eps(omega[i], es, einf, tau)]
    IN  Call(Arr([i \in 1..Len(eps) |-> Re(eps[i])]),
             Arr([i \in 1..Len(eps) |-> QMul(w[i], Im(eps[i]))]),
             Scal(Re(Cx(mu_0))),
             Scal(Im(Cx(mu_0))))

DebyeInit(fr, es, einf, tau) ==
    LET omega == Omega(fr)
        w == Freq_w(fr)
        eps == [i \in 1..Len(omega) |-> Debye_eps(omega[i], es, einf, tau)]
    IN  Call(Arr([i \in 1..Len(eps) |-> Re(eps[i])]),
             Arr([i \in 1..Len(eps) |-> QMul(w[i], Im(eps[i]))]),
             Scal(Re(Cx(mu_0))),
             Arr([i \in 1..Len(w) |-> QMul(w[i], Im(Cx(mu_0)))]))

----------------------------------------------------------------------------
(* ColeCole.__init__                                                       *)

\* eps = einf + (es-einf)/(1+(1j*omega*tau)**(1-alpha))
ColeCole_eps(w, es, einf, tau, alpha) ==
    LET z == CMul(CMul(J, Cx(w)), Cx(tau))
        den == CAdd(Cx(One), CPow(z, QSub(One, alpha)))
    IN  CAdd(Cx(einf), CDiv(Cx(QSub(es, einf)), den))

ColeColeInit(fr, es, einf, tau, alpha) ==
    LET omega == Omega(fr)
        w == Freq_w(fr)
        eps == [i \in 1..Len(omega) |-> ColeCole_eps(omega[i], es, einf, tau, alpha)]
    IN  Call(Arr([i \in 1..Len(eps) |-> Re(eps[i])]),
             Arr([i \in 1..Len(eps) |-> QMul(w[i], Im(eps[i]))]),
             Scal(Re(Cx(mu_0))),
             Arr([i \in 1..Len(w) |-> QMul(w[i], Im(Cx(mu_0)))]))

----------------------------------------------------------------------------
(* Plasma.__init__                                                         *)

\* wp2 = (ne*e**2)/(epsilon_0*m_e)
Plasma_wp2(ne) == QMul(ne, e2_over_eps0_me)

\* ep_r = ((1-wp2/(omega**2+nu**2)) - 1j * wp2*nu/(omega*(omega**2+nu**2)))
Plasma_ep_r(w, ne, nu) ==
    LET wp2 == Plasma_wp2(ne)
        s == QAdd(QSquare(w), QSquare(nu))
    IN  CSub(Cx(QSub(One, QDiv(wp2, s))),
             CDiv(CMul(CMul(J, Cx(wp2)), Cx(nu)), Cx(QMul(w, s))))

PlasmaInit(fr, ne, nu) ==
    LET omega == Omega(fr)
        w == Freq_w(fr)
        mu_r == One
        eps == [i \in 1..Len(omega) |-> CMul(Cx(epsilon_0), Plasma_ep_r(omega[i], ne, nu))]
    IN  Call(Arr([i \in 1..Len(eps) |-> Re(eps[i])]),
             Arr([i \in 1..Len(eps) |-> QMul(w[i], Im(eps[i]))]),
             Scal(Re(Cx(QMul(mu_0, mu_r)))),
             Arr([i \in 1..Len(w) |-> QMul(w[i], Im(Cx(QMul(mu_0, mu_r))))]))

----------------------------------------------------------------------------
(* TwoWire                                                                 *)

\* the names twowire.py binds at module level before the class statement
TwoWireGlobals ==
    {"epsilon_0", "mu_0", "pi", "arccosh", "sqrt", "DistributedCircuit", "to_meters"}

\* def __init__(..., sigma_c=inf, ...): the default is evaluated when the def
\* statement runs; the name is looked up in the module, then in builtins.
TwoWire_def(b) ==
    IF "inf" \in TwoWireGlobals \cup b
    THEN [raised |-> "none", sigma_c |-> Inf]
    ELSE [raised |-> "NameError", sigma_c |-> NaN]

\* R = sqrt(omega * mu_c / (2 * (pi * a)**2 * sigma_c * (1-(2 * a/D)**2)))
\* (2*a/D is a division of Python floats, checked by the caller)
TwoWire_R(w, a, D, sigma_c, mu_c) ==
    QSqrt(QDiv(QMul(w, mu_c),
               QMul(QMul(QMul(int(2), QSquare(QMul(pi, a))), sigma_c),
                    QSub(One, QSquare(QDiv(QMul(int(2), a), D))))))

\* TwoWireInit with the slip of using a and D as given, the unit never looked at
TwoWireInit_unchecked(fr, a, D, sigma_c, mu_c, eps_r, tanDelta, mu_r, unit) ==
    LET eps_sgl == QMul(epsilon_0, eps_r)
        eps_dbl == QMul(QMul(epsilon_0, eps_r), tanDelta)
        omega == Omega(fr)
    IN  IF QMul(int(2), a) = Zero THEN Raise("ZeroDivisionError")
        ELSE IF D = Zero THEN Raise("ZeroDivisionError")
        ELSE
        LET invCosh == QArcCosh(QDiv(D, QMul(int(2), a)))
            R == [i \in 1..Len(omega) |-> TwoWire_R(omega[i], a, D, sigma_c, mu_c)]
            G == [i \in 1..Len(omega) |-> QDiv(QMul(QMul(pi, omega[i]), eps_dbl), invCosh)]
            L == QMul(QDiv(mu_0, pi), invCosh)
            C == QDiv(QMul(pi, eps_sgl), invCosh)
        IN  Call(Scal(C), Arr(G), Scal(L), Arr(R))

TwoWireInit(fr, a0, D0, sigma_c, mu_c, eps_r, tanDelta, mu_r, unit) ==
    LET am == to_meters(a0, unit)
        Dm == to_meters(D0, unit)
    IN  IF am.raised # "none" THEN Raise(am.raised)
        ELSE IF Dm.raised # "none" THEN Raise(Dm.raised)
        ELSE
        LET a == am.v
            D == Dm.v
            eps_sgl == QMul(epsilon_0, eps_r)
            eps_dbl == QMul(QMul(epsilon_0, eps_r), tanDelta)
            omega == Omega(fr)
        IN  \* D/(2*a) and 2*a/D divide Python floats
            IF QMul(int(2), a) = Zero THEN Raise("ZeroDivisionError")
            ELSE IF D = Zero THEN Raise("ZeroDivisionError")
            ELSE
            LET invCosh == QArcCosh(QDiv(D, QMul(int(2), a)))
                R == [i \in 1..Len(omega) |-> TwoWire_R(omega[i], a, D, sigma_c, mu_c)]
                G == [i \in 1..Len(omega) |-> QDiv(QMul(QMul(pi, omega[i]), eps_dbl), invCosh)]
                L == QMul(QDiv(mu_0, pi), invCosh)
                C == QDiv(QMul(pi, eps_sgl), invCosh)
            IN  Call(Scal(C), Arr(G), Scal(L), Arr(R))

----------------------------------------------------------------------------
(* __str__ and __repr__                                                    *)

\* '%i' % x: the float truncated toward zero
fmt_i(x) == Sign(x[1]) * (Abs(x[1]) \div x[2])

\* '<name>.  %i-%i %s.  %i points' % (f.f_scaled[0], f.f_scaled[-1], f.unit, f.npoints)
Summary(name, f) ==
    <<name, fmt_i(Freq_f_scaled(f)[1]), fmt_i(Freq_f_scaled(f)[Freq_npoints(f)]),
      f.unit, Freq_npoints(f)>>

Debye_str(self) == Summary("Debye  Media", self.frequency)
Debye_repr(self) == Debye_str(self)
ColeCole_str(self) == Summary("Debye  Media", self.frequency)
ColeCole_repr(self) == ColeCole_str(self)
Plasma_str(self) == Summary("Plasma  Media", self.frequency)
Plasma_repr(self) == Plasma_str(self)
TwoWire_str(self) == Summary("Two Wire T-line", self.frequency)
TwoWire_repr(self) == TwoWire_str(self)

\* method dispatch on the class of the object
str(self) ==
    CASE self.cls = "Debye" -> Debye_str(self)
      [] self.cls = "ColeCole" -> ColeCole_str(self)
      [] self.cls = "Plasma" -> Plasma_str(self)
      [] self.cls = "TwoWire" -> TwoWire_str(self)

repr(self) ==
    CASE self.cls = "Debye" -> Debye_repr(self)
      [] self.cls = "ColeCole" -> ColeCole_repr(self)
      [] self.cls = "Plasma" -> Plasma_repr(self)
      [] self.cls = "TwoWire" -> TwoWire_repr(self)

----------------------------------------------------------------------------
(* Bounds and the inputs drawn from them.                                  *)

MaxF == 2        \* frequencies 0..MaxF GHz
MaxPts == 2      \* points on the axis
MaxEps == 2      \* es, einf in 0..MaxEps
MaxD == 3        \* wire spacing D in 0..MaxD

\* non-decreasing, non-empty sequences of frequencies
AxesOfLen(n) ==
    {s \in [1..n -> 0..MaxF] : \A i \in 1..(n - 1) : s[i] <= s[i + 1]}

\* f = [1e9, 10e9, 100e9] Hz
WaterAxis == <<1, 10, 100>>

\* es=78.408, einf=5.2; tau=8.27e-12 s enters through 2*pi*tau = 5.196e-11 s,
\* kept here as 0.052 ns: tau = 0.052/(2*pi) ns
WaterArgs == <<<<9801, 125>>, <<26, 5>>, <<26, 3125>>>>

FreqSet ==
    {[f |-> s, unit |-> u] :
        s \in UNION {AxesOfLen(n) : n \in 1..MaxPts},
        u \in {"GHz", "THz"}}

WaterFreq == [f |-> WaterAxis, unit |-> "GHz"]

EpsSet == {int(i) : i \in 0..MaxEps}
TauSet == {Zero, <<1, 25>>, <<1, 5>>}
DebyeArgs == EpsSet \X EpsSet \X TauSet
AlphaSet == {Zero, One}
NeSet == {Zero, One}
NuSet == {Zero, One, int(2)}
ASet == {Zero, One}
DSet == {int(i) : i \in 0..MaxD}
\* sigma_c omitted, finite, or float('inf') passed explicitly
SigmaSet == {[given |-> FALSE, v |-> NaN], [given |-> TRUE, v |-> One],
             [given |-> TRUE, v |-> Inf]}
UnitSet == {"m", "cm", "furlong"}

----------------------------------------------------------------------------
(* The operations.                                                         *)

\* A constructor call cls(frequency, *args) that ended as r says.  An object
\* whose __init__ raised is never bound by the caller.
Construct(cls, args, result) ==
    \E r \in {result} :
    /\ call' = [cls |-> cls, args |-> args]
    /\ raised' = r.raised
    /\ dcinit' = r.dc
    /\ medium' = IF r.raised = "none" /\ r.dc # None
                 THEN DistributedCircuit_init(cls, frequency,
                                              r.dc.C, r.dc.G, r.dc.I, r.dc.R)
                 ELSE None
    /\ strOut' = None
    /\ reprOut' = None
    /\ UNCHANGED <<frequency, builtins>>

\* Debye with the slip omega = frequency.f; omega *= 2*pi, which scales the
\* shared axis in place
Debye_inplace(es, einf, tau) ==
    \E r \in {DebyeInit(frequency, es, einf, tau)} :
    /\ call' = [cls |-> "Debye", args |-> <<es, einf, tau>>]
    /\ raised' = r.raised
    /\ dcinit' = r.dc
    /\ medium' = DistributedCircuit_init("Debye", frequency,
                                         r.dc.C, r.dc.G, r.dc.I, r.dc.R)
    /\ strOut' = None
    /\ reprOut' = None
    /\ frequency' = [frequency EXCEPT !.f = [i \in 1..Len(@) |-> 6 * @[i]]]
    /\ UNCHANGED builtins

Debye(es, einf, tau) ==
    Construct("Debye", <<es, einf, tau>>, DebyeInit(frequency, es, einf, tau))

ColeCole(es, einf, tau, alpha) ==
    Construct("ColeCole", <<es, einf, tau, alpha>>,
              ColeColeInit(frequency, es, einf, tau, alpha))

Plasma(ne, nu) ==
    Construct("Plasma", <<ne, nu>>, PlasmaInit(frequency, ne, nu))

\* mu_c, eps_r, tanDelta, mu_r are left at their defaults 1, 1, 0, 1
TwoWire(a, D, sigma, unit) ==
    LET d == TwoWire_def(builtins)
    IN  Construct("TwoWire", <<a, D, sigma, unit>>,
                  IF d.raised # "none" THEN Raise(d.raised)
                  ELSE TwoWireInit(frequency, a, D,
                                   IF sigma.given THEN sigma.v ELSE d.sigma_c,
                                   One, One, Zero, One, unit))

Str ==
    /\ medium # None
    /\ strOut' = str(medium)
    /\ UNCHANGED <<frequency, builtins, medium, raised, reprOut, call, dcinit>>

Repr ==
    /\ medium # None
    /\ reprOut' = repr(medium)
    /\ UNCHANGED <<frequency, builtins, medium, raised, strOut, call, dcinit>>

InitOn(axes) ==
    /\ frequency \in axes
    /\ builtins \in {{}, {"inf"}}
    /\ medium = None
    /\ raised = "none"
    /\ strOut = None
    /\ reprOut = None
    /\ call = None
    /\ dcinit = None
    /\ seen = None

Init == InitOn(FreqSet)

\* One medium: constructed on the axis, then printed.
Next ==
    /\ \/ \E p \in DebyeArgs : call = None /\ Debye(p[1], p[2], p[3])
       \/ \E p \in DebyeArgs, alpha \in AlphaSet :
              call = None /\ ColeCole(p[1], p[2], p[3], alpha)
       \/ \E ne \in NeSet, nu \in NuSet : call = None /\ Plasma(ne, nu)
       \/ \E a \in ASet, D \in DSet, sigma \in SigmaSet, unit \in UnitSet :
              call = None /\ TwoWire(a, D, sigma, unit)
       \/ Str
       \/ Repr
    /\ UNCHANGED seen

Spec == Init /\ [][Next]_vars

\* The two dielectric relaxation models alone, the sweep of water included.
InitDielectric == InitOn(FreqSet \cup {WaterFreq})

NextDielectric ==
    /\ \/ \E p \in DebyeArgs \cup {WaterArgs} : call = None /\ Debye(p[1], p[2], p[3])
       \/ \E p \in DebyeArgs \cup {WaterArgs}, alpha \in AlphaSet :
              call = None /\ ColeCole(p[1], p[2], p[3], alpha)
       \/ Str
       \/ Repr
    /\ UNCHANGED seen

SpecDielectric == InitDielectric /\ [][NextDielectric]_vars

\* Any sequence of constructions and prints on the one axis; seen keeps the first.
InitSeq == InitOn({fr \in FreqSet : fr.unit = "GHz"})

SeqDebyeArgs == {<<int(2), One, <<1, 25>>>>}

NextSeq ==
    /\ \/ \E p \in SeqDebyeArgs : Debye(p[1], p[2], p[3])
       \/ \E p \in SeqDebyeArgs, alpha \in AlphaSet : ColeCole(p[1], p[2], p[3], alpha)
       \/ \E ne \in {One}, nu \in {One} : Plasma(ne, nu)
       \/ \E sigma \in {x \in SigmaSet : x.v # Inf} : TwoWire(One, int(3), sigma, "m")
       \/ Str
       \/ Repr
    /\ seen' = IF seen = None
               THEN (IF call' = None THEN None
                     ELSE [call |-> call', raised |-> raised', dc |-> dcinit',
                           others |-> FALSE])
               ELSE [seen EXCEPT !.others = @ \/ call' # seen.call]

SpecSeq == InitSeq /\ [][NextSeq]_vars

----------------------------------------------------------------------------
(* Properties.                                                             *)

Classes == {"Debye", "ColeCole", "Plasma", "TwoWire"}
IsCall(cls) == call # None /\ call.cls = cls
NPoints == Freq_npoints(frequency)
IsArrayOfLen(x, n) == x.shape = "array" /\ Len(x.v) = n
IsScalar(x) == x.shape = "scalar" /\ Len(x.v) = 1
AllFinite(x) == \A i \in 1..Len(x.v) : IsFinite(x.v[i])
\* a and D of the last TwoWire call, in meters
TW_a == to_meters(call.args[1], call.args[4]).v
TW_D == to_meters(call.args[2], call.args[4]).v

\* C1: a TwoWire call with D <= 2a (in meters) ends in a validation error and
\* DistributedCircuit.__init__ is never invoked.
C1_BadGeometryRejected ==
    (IsCall("TwoWire") /\ call.args[4] \in RecognizedUnits
        /\ QLe(TW_D, QMul(int(2), TW_a)))
    => (raised = "ValueError" /\ dcinit = None)

\* C2: ColeCole with alpha = 0 hands DistributedCircuit.__init__ the same
\* R, L, G, C as Debye with the same es, einf, tau on the same axis.
C2_ColeColeAlphaZeroIsDebye ==
    (IsCall("ColeCole") /\ call.args[4] = Zero)
    => dcinit = DebyeInit(frequency, call.args[1], call.args[2], call.args[3]).dc

C4_PlasmaRejectsZeroFrequency ==
    (IsCall("Plasma") /\ \E i \in 1..NPoints : frequency.f[i] = 0)
    => (raised # "none" /\ dcinit = None)

\* C5 as stated: each of R, L, G, C handed to DistributedCircuit.__init__ is
\* an array of exactly n values.
C5_AllFourAreArrays ==
    dcinit # None
    => /\ IsArrayOfLen(dcinit.R, NPoints) /\ IsArrayOfLen(dcinit.I, NPoints)
       /\ IsArrayOfLen(dcinit.G, NPoints) /\ IsArrayOfLen(dcinit.C, NPoints)

\* C5 amended: R and G are arrays of exactly n values; L is a scalar; C is an
\* array of exactly n values for Debye, ColeCole and Plasma and a scalar for
\* TwoWire.
C5_ArraysOrScalars ==
    dcinit # None
    => /\ IsArrayOfLen(dcinit.R, NPoints) /\ IsArrayOfLen(dcinit.G, NPoints)
       /\ IsScalar(dcinit.I)
       /\ IF call.cls = "TwoWire" THEN IsScalar(dcinit.C)
          ELSE IsArrayOfLen(dcinit.C, NPoints)

C5_Witness == IsCall("Debye") /\ dcinit # None /\ NPoints = 2

\* C6: a constructor call that raised never invoked DistributedCircuit.__init__
\* and left no medium; a TwoWire call with an unrecognised unit raises, and
\* does so before the geometry is computed.
C6_ErrorsAbortConstruction ==
    /\ raised # "none" => (dcinit = None /\ medium = None)
    /\ (IsCall("TwoWire") /\ call.args[4] \notin RecognizedUnits)
       => (raised \in {"NameError", "ValueError"} /\ medium = None)

C6_Witness ==
    /\ IsCall("TwoWire") /\ call.args[4] \notin RecognizedUnits
    /\ call.args[1] = Zero
    /\ raised = "ValueError"

\* C7: __str__ and __repr__ agree; the summary holds the first and last scaled
\* frequency, the unit label and the point count; and no other class gives the
\* same summary on the same axis.
C7_SummaryIdentifiesClass ==
    /\ (strOut # None /\ reprOut # None) => strOut = reprOut
    /\ strOut # None
       => /\ strOut[2] = fmt_i(Freq_f_scaled(frequency)[1])
          /\ strOut[3] = fmt_i(Freq_f_scaled(frequency)[NPoints])
          /\ strOut[4] = frequency.unit
          /\ strOut[5] = NPoints
          /\ \A c \in Classes \ {medium.cls} :
                 str([medium EXCEPT !.cls = c]) # strOut

\* C8: no step changes the axis, and a constructor call equal to the first one
\* of the run ends as the first one did, with the same R, L, G, C.
C8_AxisReadOnlyAndStateless ==
    [][/\ frequency' = frequency
       /\ (seen' # None /\ call' = seen'.call)
          => (raised' = seen'.raised /\ dcinit' = seen'.dc)]_vars

C8_Witness ==
    /\ seen # None /\ seen.others /\ call = seen.call
    /\ dcinit # None /\ strOut # None

\* C9: a TwoWire call with sigma_c omitted or infinite and D > 2a is
\* constructed and has R = 0 at every frequency point.
C9_PerfectConductor ==
    (IsCall("TwoWire") /\ call.args[4] \in RecognizedUnits
        /\ (~call.args[3].given \/ call.args[3].v = Inf)
        /\ QLt(QMul(int(2), TW_a), TW_D))
    => /\ raised = "none"
       /\ dcinit # None
       /\ dcinit.R = Arr([i \in 1..NPoints |-> Zero])

\* Im(eps) at point i of the constructed Debye medium: G = w * Im(eps)
ImEps(i) ==
    IF Freq_w(frequency)[i] = Zero THEN Zero
    ELSE QDiv(dcinit.G.v[i], Freq_w(frequency)[i])

\* C10: for Debye with es > einf and tau > 0, Im(eps) is positive where w > 0,
\* grows with w up to w*tau = 1 and falls with w from w*tau = 1 on; for water
\* on 1, 10, 100 GHz it is largest at 10 GHz.
C10_DebyeLossPeak ==
    (IsCall("Debye") /\ dcinit # None
        /\ QLt(call.args[2], call.args[1]) /\ QLt(Zero, call.args[3]))
    => LET w == Freq_w(frequency)
           tau == call.args[3]
       IN  /\ \A i \in 1..NPoints : QLt(Zero, w[i]) => QLt(Zero, ImEps(i))
           /\ \A i, j \in 1..NPoints :
                 (QLt(Zero, w[i]) /\ QLt(w[i], w[j]))
                 => /\ QLe(QMul(w[j], tau), One) => QLt(ImEps(i), ImEps(j))
                    /\ QLe(One, QMul(w[i], tau)) => QLt(ImEps(j), ImEps(i))
           /\ (frequency = WaterFreq /\ call.args = WaterArgs)
              => (QLt(ImEps(1), ImEps(2)) /\ QLt(ImEps(3), ImEps(2)))

C10_Witness ==
    /\ IsCall("Debye") /\ dcinit # None
    /\ frequency = WaterFreq /\ call.args = WaterArgs

====
